---- MODULE Spec2Model ----
(***************************************************************************)
(* One call of TrafficAgent.learn (src/agents/trafficagent.py) for each of *)
(* the three agent classes.  The simulation environment, the tabular       *)
(* agents, the DQN trainer, the plotter and the user's metric callback are *)
(* external collaborators: what they return is drawn from small sets, what *)
(* they are asked to do is recorded.                                       *)
(***************************************************************************)
EXTENDS Integers, Sequences, FiniteSets, TLC

(* bounds of the model *)
MaxSteps == 2
MaxSeconds == 2

Variants == {"FixedCycle", "QLearning", "DeepQLearning"}
DeltaTimes == {1, 2}
NumSeconds == 0..MaxSeconds
YellowTimes == {2, 3}
TsOrder == <<"ts1", "ts2">>
TsIds == {TsOrder[i] : i \in 1..Len(TsOrder)}
(* what the collaborators hand back, per traffic-signal id: small sets of joint
   values in which the two signals never get the same value *)
JointActions == { [ts \in TsIds |-> IF ts = TsOrder[1] THEN a ELSE 1 - a] : a \in {0, 1} }
JointObservations == { [ts \in TsIds |-> IF ts = TsOrder[1] THEN o ELSE o + 2] : o \in {0, 1} }
JointRewards == { [ts \in TsIds |-> IF ts = TsOrder[1] THEN r ELSE r - 2] : r \in {0, 1} }
(* info dictionaries the environment can produce, as insertion-ordered
   sequences of <<metric, value>> with distinct metrics *)
InfoDicts ==
  { << <<"system_mean_speed", 1>> >>,
    << <<"system_total_stopped", 0>>, <<"system_mean_speed", 2>> >> }

VARIABLES
  variant,     \* which subclass of TrafficAgent `self` is
  args,        \* the constructor arguments
  self,        \* the fields TrafficAgent.__init__ stored
  pc,          \* position inside learn
  env,         \* the SumoEnvironment built by _get_env (its parameters)
  sim,         \* the environment's run state: metrics, over, lastDone, closed
  agent,       \* what _get_agent returned
  done,        \* local `done` of _learn
  state,       \* local `state` of QLearningTrafficAgent._learn
  reward,      \* local `reward` of QLearningTrafficAgent._learn
  actions,     \* local `actions` of QLearningTrafficAgent._learn
  info,        \* the dictionary _update_metrics is iterating
  idx,         \* position of that iteration (1-based)
  cursor,      \* position of the loop over agent.keys() (1-based)
  ret,         \* where _update_metrics returns to
  plotLog,     \* plotter.append calls received, in order
  cbLog,       \* user callback calls received, in order
  forwarded,   \* dictionaries handed to update_metrics, in order
  events,      \* the events of learn, in order
  calls,       \* what was asked of the environment, by whom
  trainer,     \* the DQN trainer's run state
  raisedAt     \* position at which a collaborator raised, or "none"

vars == <<variant, args, self, pc, env, sim, agent, done, state, reward, actions,
          info, idx, cursor, ret, plotLog, cbLog, forwarded, events, calls, trainer, raisedAt>>

----------------------------------------------------------------------------
(* Constructors *)

TrafficAgent_init(name, fixed_ts, single_agent, net_file, route_file, num_seconds, delta_time, yellow_time, min_green, max_green) ==
  [ name |-> name, fixed_ts |-> fixed_ts, single_agent |-> single_agent,
    net_file |-> net_file, route_file |-> route_file,
    num_seconds |-> num_seconds, delta_time |-> delta_time,
    yellow_time |-> yellow_time, min_green |-> min_green, max_green |-> max_green ]

(* faulty variant: the baseline built without fixed_ts *)
FixedCycle_init_not_fixed(a) ==
  TrafficAgent_init(a.name, FALSE, FALSE, a.net_file, a.route_file,
                    a.num_seconds - a.delta_time, a.delta_time,
                    a.yellow_time, a.min_green, a.max_green)

FixedCycleTrafficAgent_init(a) ==
  TrafficAgent_init(a.name, TRUE, FALSE, a.net_file, a.route_file,
                    a.num_seconds - a.delta_time, a.delta_time,
                    a.yellow_time, a.min_green, a.max_green)

QLearningTrafficAgent_init(a) ==
  TrafficAgent_init(a.name, FALSE, FALSE, a.net_file, a.route_file,
                    a.num_seconds - a.delta_time, a.delta_time,
                    a.yellow_time, a.min_green, a.max_green)

(* faulty variant: the horizon adjusted as in the other two classes *)
DeepQLearning_init_minus(a) ==
  TrafficAgent_init(a.name, FALSE, TRUE, a.net_file, a.route_file,
                    a.num_seconds - a.delta_time, a.delta_time,
                    a.yellow_time, a.min_green, a.max_green)

DeepQLearningTrafficAgent_init(a) ==
  TrafficAgent_init(a.name, FALSE, TRUE, a.net_file, a.route_file,
                    a.num_seconds \div a.delta_time, a.delta_time,
                    a.yellow_time, a.min_green, a.max_green)

Construct(v, a) ==
  CASE v = "FixedCycle" -> FixedCycleTrafficAgent_init(a)
    [] v = "QLearning" -> QLearningTrafficAgent_init(a)
    [] v = "DeepQLearning" -> DeepQLearningTrafficAgent_init(a)

get_csv_name(s) ==
  << "outputs", s.name,
     <<"num_seconds", s.num_seconds>>, <<"delta_time", s.delta_time>>,
     <<"yellow_time", s.yellow_time>>, <<"min_green", s.min_green>>,
     <<"max_green", s.max_green>> >>

get_env(s, out_csv_name, use_gui, add_system_info, add_per_agent_info) ==
  [ net_file |-> s.net_file, route_file |-> s.route_file,
    out_csv_name |-> out_csv_name, use_gui |-> use_gui,
    num_seconds |-> s.num_seconds, delta_time |-> s.delta_time,
    yellow_time |-> s.yellow_time, min_green |-> s.min_green,
    max_green |-> s.max_green, add_system_info |-> add_system_info,
    add_per_agent_info |-> add_per_agent_info,
    fixed_ts |-> s.fixed_ts, single_agent |-> s.single_agent ]

NoEnv == [ fixed_ts |-> "none" ]
NoInfo == << >>
AllKey == "__all__"
(* faulty variant: the flag read from the environment after reset *)
InitialDone_from_reset == [k \in {AllKey} |-> sim.over]

(* done = {'__all__': False} *)
InitialDone == [k \in {AllKey} |-> FALSE]

(* faulty variant: any key of done ends the loop *)
LoopCond_any_key(d) == \A k \in DOMAIN d : ~ d[k]

(* while not done['__all__'] *)
LoopCond(d) == ~ d[AllKey]

encode(obs, ts) == <<ts, obs>>

Args ==
  [ name : {"agent"}, net_file : {"net.xml"}, route_file : {"rou.xml"},
    num_seconds : NumSeconds, delta_time : DeltaTimes,
    yellow_time : YellowTimes, min_green : {5}, max_green : {50} ]

Init ==
  /\ variant \in Variants
  /\ args \in Args
  /\ self = Construct(variant, args)
  /\ pc = "start"
  /\ env = NoEnv
  /\ sim = [metrics |-> << >>, over |-> FALSE, overAtReset |-> FALSE,
            lastDone |-> FALSE, closed |-> FALSE]
  /\ agent = [kind |-> "unset"]
  /\ done = InitialDone
  /\ state = [ts \in TsIds |-> 0]
  /\ reward = [ts \in TsIds |-> 0]
  /\ actions = [ts \in TsIds |-> 0]
  /\ info = NoInfo
  /\ idx = 0
  /\ cursor = 1
  /\ ret = "none"
  /\ plotLog = << >>
  /\ cbLog = << >>
  /\ forwarded = << >>
  /\ events = << >>
  /\ calls = [resets |-> 0, steps |-> 0, trainerResets |-> 0, trainerSteps |-> 0,
              lastAction |-> << >>, stepBeforeReset |-> FALSE,
              stepAfterDone |-> FALSE]
  /\ trainer = [total_timesteps |-> -1, num_timesteps |-> 0, infos |-> << >>]
  /\ raisedAt = "none"


----------------------------------------------------------------------------
(* The environment, as the code uses it *)

Last(s) == s[Len(s)]
DoneDicts(all) == { [k \in {AllKey} \cup TsIds |-> IF k = AllKey THEN all ELSE b] : b \in BOOLEAN }

(* env.reset(): clears the metrics; the episode may already be over *)
env_reset(over) ==
  [sim EXCEPT !.metrics = << >>, !.over = over, !.overAtReset = over, !.lastDone = FALSE]

(* env.step(action): appends one metrics entry and reports whether the episode is over *)
env_step(i, over) ==
  [sim EXCEPT !.metrics = Append(@, i), !.over = over, !.lastDone = over]

StepOutcomes == IF sim.over THEN {TRUE} ELSE BOOLEAN

(* faulty variant: env.metrics[0] *)
metrics_entry_first == sim.metrics[1]

(* env.metrics[-1] *)
metrics_entry == Last(sim.metrics)

repo_reset == [calls EXCEPT !.resets = @ + 1]
repo_step(a) ==
  [calls EXCEPT !.steps = @ + 1, !.lastAction = a,
                !.stepBeforeReset = @ \/ calls.resets = 0,
                !.stepAfterDone = @ \/ sim.lastDone]

----------------------------------------------------------------------------
(* TrafficAgent.learn *)

learn_get_env ==
  /\ pc = "start"
  /\ env' = get_env(self, get_csv_name(self), FALSE, TRUE, TRUE)
  /\ events' = Append(events, "get_env")
  /\ pc' = "get_agent"
  /\ UNCHANGED <<variant, args, self, sim, agent, done, state, reward, actions,
                 info, idx, cursor, ret, plotLog, cbLog, forwarded, calls, trainer, raisedAt>>

(* lambda info: self._update_metrics(info, update_metrics), entered with dictionary i *)
update_metrics_call(i, back) ==
  /\ forwarded' = Append(forwarded, i)
  /\ info' = i
  /\ idx' = 1
  /\ ret' = back
  /\ pc' = IF Len(i) = 0 THEN back ELSE "um_append"

update_metrics_append ==
  /\ pc = "um_append"
  /\ plotLog' = Append(plotLog, <<info[idx][2], info[idx][1]>>)
  /\ pc' = "um_callback"
  /\ UNCHANGED <<variant, args, self, env, sim, agent, done, state, reward, actions,
                 info, idx, cursor, ret, cbLog, forwarded, events, calls, trainer, raisedAt>>

(* faulty variant: the callback is given another agent's name *)
callback_args_other_name == <<info[idx][2], info[idx][1], "other">>

callback_args == <<info[idx][2], info[idx][1], self.name>>

update_metrics_callback ==
  /\ pc = "um_callback"
  /\ cbLog' = Append(cbLog, callback_args)
  /\ idx' = idx + 1
  /\ pc' = IF idx + 1 > Len(info) THEN ret ELSE "um_append"
  /\ UNCHANGED <<variant, args, self, env, sim, agent, done, state, reward, actions,
                 info, cursor, ret, plotLog, forwarded, events, calls, trainer, raisedAt>>

(* faulty variant: the environment is closed before the plots are saved *)
AfterSwapped(p) ==
  CASE p = "save_model" -> "save_csv"
    [] p = "save_csv" -> "close"
    [] p = "close" -> "save_plots"
    [] p = "save_plots" -> "closed"

(* the statements of learn that follow the return of _learn *)
After(p) ==
  CASE p = "save_model" -> "save_csv"
    [] p = "save_csv" -> "save_plots"
    [] p = "save_plots" -> "close"
    [] p = "close" -> "closed"

learn_save_model ==
  /\ pc = "save_model"
  /\ events' = Append(events, "save_model")
  /\ pc' = After(pc)
  /\ UNCHANGED <<variant, args, self, env, sim, agent, done, state, reward, actions,
                 info, idx, cursor, ret, plotLog, cbLog, forwarded, calls, trainer, raisedAt>>

learn_save_csv ==
  /\ pc = "save_csv"
  /\ events' = Append(events, "save_csv")
  /\ pc' = After(pc)
  /\ UNCHANGED <<variant, args, self, env, sim, agent, done, state, reward, actions,
                 info, idx, cursor, ret, plotLog, cbLog, forwarded, calls, trainer, raisedAt>>

learn_save_plots ==
  /\ pc = "save_plots"
  /\ events' = Append(events, "save_plots")
  /\ pc' = After(pc)
  /\ UNCHANGED <<variant, args, self, env, sim, agent, done, state, reward, actions,
                 info, idx, cursor, ret, plotLog, cbLog, forwarded, calls, trainer, raisedAt>>

learn_close ==
  /\ pc = "close"
  /\ events' = Append(events, "close")
  /\ sim' = [sim EXCEPT !.closed = TRUE]
  /\ pc' = After(pc)
  /\ UNCHANGED <<variant, args, self, env, agent, done, state, reward, actions,
                 info, idx, cursor, ret, plotLog, cbLog, forwarded, calls, trainer, raisedAt>>

----------------------------------------------------------------------------
(* FixedCycleTrafficAgent *)

FixedCycle_get_agent ==
  /\ pc = "get_agent" /\ variant = "FixedCycle"
  /\ agent' = [kind |-> "None"]
  /\ events' = Append(events, "get_agent")
  /\ pc' = "learn"
  /\ UNCHANGED <<variant, args, self, env, sim, done, state, reward, actions,
                 info, idx, cursor, ret, plotLog, cbLog, forwarded, calls, trainer, raisedAt>>

(* env.reset(); done = {'__all__': False} *)
FixedCycle_learn_reset ==
  /\ pc = "learn" /\ variant = "FixedCycle"
  /\ \E over \in BOOLEAN : sim' = env_reset(over)
  /\ calls' = repo_reset
  /\ done' = InitialDone
  /\ events' = Append(events, "learn")
  /\ pc' = "fc_while"
  /\ UNCHANGED <<variant, args, self, env, agent, state, reward, actions,
                 info, idx, cursor, ret, plotLog, cbLog, forwarded, trainer, raisedAt>>

FixedCycle_learn_while ==
  /\ pc = "fc_while"
  /\ pc' = IF LoopCond(done) THEN "fc_step" ELSE "save_model"
  /\ UNCHANGED <<variant, args, self, env, sim, agent, done, state, reward, actions,
                 info, idx, cursor, ret, plotLog, cbLog, forwarded, events, calls, trainer, raisedAt>>

(* faulty variant: a non-empty action dictionary *)
FixedCycle_step_action_default == [ts \in TsIds |-> 0]

FixedCycle_step_action == << >>

(* _, _, done, _ = env.step({}) *)
FixedCycle_learn_step ==
  /\ pc = "fc_step"
  /\ calls.steps < MaxSteps
  /\ \E i \in InfoDicts, over \in StepOutcomes :
       /\ sim' = env_step(i, over)
       /\ done' \in DoneDicts(over)
  /\ calls' = repo_step(FixedCycle_step_action)
  /\ pc' = "fc_update"
  /\ UNCHANGED <<variant, args, self, env, agent, state, reward, actions,
                 info, idx, cursor, ret, plotLog, cbLog, forwarded, events, trainer, raisedAt>>

(* update_metrics(env.metrics[-1]) *)
FixedCycle_learn_update ==
  /\ pc = "fc_update"
  /\ update_metrics_call(metrics_entry, "fc_while")
  /\ UNCHANGED <<variant, args, self, env, sim, agent, done, state, reward, actions,
                 cursor, plotLog, cbLog, events, calls, trainer, raisedAt>>

----------------------------------------------------------------------------
(* QLearningTrafficAgent *)

QLAgent(starting_state) ==
  [starting_state |-> starting_state, acts |-> 0, learns |-> 0, last |-> << >>]

(* initial_states = env.reset(); one QLAgent per ts of env.ts_ids *)
QLearning_get_agent ==
  /\ pc = "get_agent" /\ variant = "QLearning"
  /\ \E over \in BOOLEAN : sim' = env_reset(over)
  /\ calls' = repo_reset
  /\ \E initial_states \in JointObservations :
       agent' = [kind |-> "QLAgents",
                 ql |-> [ts \in TsIds |-> QLAgent(encode(initial_states[ts], ts))]]
  /\ events' = Append(events, "get_agent")
  /\ pc' = "learn"
  /\ UNCHANGED <<variant, args, self, env, done, state, reward, actions,
                 info, idx, cursor, ret, plotLog, cbLog, forwarded, trainer, raisedAt>>

(* done = {'__all__': False} *)
QLearning_learn_begin ==
  /\ pc = "learn" /\ variant = "QLearning"
  /\ done' = InitialDone
  /\ events' = Append(events, "learn")
  /\ pc' = "ql_while"
  /\ UNCHANGED <<variant, args, self, env, sim, agent, state, reward, actions,
                 info, idx, cursor, ret, plotLog, cbLog, forwarded, calls, trainer, raisedAt>>

QLearning_learn_while ==
  /\ pc = "ql_while"
  /\ pc' = IF LoopCond(done) THEN "ql_act" ELSE "save_model"
  /\ UNCHANGED <<variant, args, self, env, sim, agent, done, state, reward, actions,
                 info, idx, cursor, ret, plotLog, cbLog, forwarded, events, calls, trainer, raisedAt>>

(* actions = {ts: agent[ts].act() for ts in agent.keys()} *)
QLearning_learn_act ==
  /\ pc = "ql_act"
  /\ calls.steps < MaxSteps
  /\ actions' \in JointActions
  /\ agent' = [agent EXCEPT !.ql = [ts \in TsIds |-> [@[ts] EXCEPT !.acts = @ + 1]]]
  /\ pc' = "ql_step"
  /\ UNCHANGED <<variant, args, self, env, sim, done, state, reward,
                 info, idx, cursor, ret, plotLog, cbLog, forwarded, events, calls, trainer, raisedAt>>

(* state, reward, done, _ = env.step(action = actions) *)
QLearning_learn_step ==
  /\ pc = "ql_step"
  /\ \E i \in InfoDicts, over \in StepOutcomes :
       /\ sim' = env_step(i, over)
       /\ done' \in DoneDicts(over)
  /\ state' \in JointObservations
  /\ reward' \in JointRewards
  /\ calls' = repo_step(actions)
  /\ pc' = "ql_update"
  /\ UNCHANGED <<variant, args, self, env, agent, actions,
                 info, idx, cursor, ret, plotLog, cbLog, forwarded, events, trainer, raisedAt>>

(* update_metrics(env.metrics[-1]) *)
QLearning_learn_update ==
  /\ pc = "ql_update"
  /\ update_metrics_call(metrics_entry, "ql_learn")
  /\ UNCHANGED <<variant, args, self, env, sim, agent, done, state, reward, actions,
                 cursor, plotLog, cbLog, events, calls, trainer, raisedAt>>

(* faulty variant: every agent learns from the first agent's state and reward *)
learn_args_first_agent(agent_id) ==
  [next_state |-> encode(state[TsOrder[1]], TsOrder[1]), reward |-> reward[TsOrder[1]]]

(* next_state = env.encode(state[agent_id], agent_id), reward = reward[agent_id] *)
learn_args(agent_id) ==
  [next_state |-> encode(state[agent_id], agent_id), reward |-> reward[agent_id]]

(* for agent_id in agent.keys(): agent[agent_id].learn(...) *)
QLearning_learn_learn ==
  /\ pc = "ql_learn"
  /\ LET agent_id == TsOrder[cursor] IN
       agent' = [agent EXCEPT !.ql[agent_id].learns = @ + 1,
                              !.ql[agent_id].last = learn_args(agent_id)]
  /\ cursor' = IF cursor + 1 > Len(TsOrder) THEN 1 ELSE cursor + 1
  /\ pc' = IF cursor + 1 > Len(TsOrder) THEN "ql_while" ELSE "ql_learn"
  /\ UNCHANGED <<variant, args, self, env, sim, done, state, reward, actions,
                 info, idx, ret, plotLog, cbLog, forwarded, events, calls, trainer, raisedAt>>

----------------------------------------------------------------------------
(* DeepQLearningTrafficAgent *)

DeepQLearning_get_agent ==
  /\ pc = "get_agent" /\ variant = "DeepQLearning"
  /\ agent' = [kind |-> "DQN", env |-> env, learning_starts |-> 0, train_freq |-> 1]
  /\ events' = Append(events, "get_agent")
  /\ pc' = "learn"
  /\ UNCHANGED <<variant, args, self, env, sim, done, state, reward, actions,
                 info, idx, cursor, ret, plotLog, cbLog, forwarded, calls, trainer, raisedAt>>

(* agent.learn(total_timesteps = self.num_seconds, callback = ...): the trainer starts *)
DeepQLearning_learn ==
  /\ pc = "learn" /\ variant = "DeepQLearning"
  /\ trainer' = [trainer EXCEPT !.total_timesteps = self.num_seconds, !.num_timesteps = 0]
  /\ \E over \in BOOLEAN : sim' = env_reset(over)
  /\ calls' = [calls EXCEPT !.trainerResets = @ + 1]
  /\ events' = Append(events, "learn")
  /\ pc' = "dqn_loop"
  /\ UNCHANGED <<variant, args, self, env, agent, done, state, reward, actions,
                 info, idx, cursor, ret, plotLog, cbLog, forwarded, raisedAt>>

(* the trainer takes one timestep in its own environment, or returns *)
DQN_timestep ==
  /\ pc = "dqn_loop"
  /\ IF trainer.num_timesteps < trainer.total_timesteps
       THEN /\ \E i \in InfoDicts, over \in BOOLEAN : 
                 /\ sim' = env_step(i, over)
                 /\ trainer' = [trainer EXCEPT !.num_timesteps = @ + 1, !.infos = <<i>>]
            /\ calls' = [calls EXCEPT !.trainerSteps = @ + 1]
            /\ pc' = "dqn_callback"
       ELSE /\ pc' = "save_model"
            /\ UNCHANGED <<sim, trainer, calls>>
  /\ UNCHANGED <<variant, args, self, env, agent, done, state, reward, actions,
                 info, idx, cursor, ret, plotLog, cbLog, forwarded, events, raisedAt>>

(* lambda locals, _: update_metrics(locals['infos'][0]) *)
DeepQLearning_callback ==
  /\ pc = "dqn_callback"
  /\ update_metrics_call(trainer.infos[1], "dqn_loop")
  /\ UNCHANGED <<variant, args, self, env, sim, agent, done, state, reward, actions,
                 cursor, plotLog, cbLog, events, calls, trainer, raisedAt>>

----------------------------------------------------------------------------
(* A collaborator raises: learn has no try/finally, the exception leaves it *)

RaisePoints ==
  {"fc_step", "ql_act", "ql_step", "ql_learn", "um_append", "um_callback",
   "dqn_loop", "save_csv", "save_plots", "close"}
   \cup (IF variant = "FixedCycle" THEN {"learn"} ELSE {"get_agent"})

(* faulty variant: as if learn closed the environment in a finally block *)
RaiseFinallyClose ==
  /\ pc \in RaisePoints
  /\ raisedAt' = pc
  /\ pc' = "raised"
  /\ sim' = [sim EXCEPT !.closed = TRUE]
  /\ events' = Append(events, "close")
  /\ UNCHANGED <<variant, args, self, env, agent, done, state, reward, actions,
                 info, idx, cursor, ret, plotLog, cbLog, forwarded, calls, trainer>>

Raise ==
  /\ pc \in RaisePoints
  /\ raisedAt' = pc
  /\ pc' = "raised"
  /\ UNCHANGED <<variant, args, self, env, sim, agent, done, state, reward, actions,
                 info, idx, cursor, ret, plotLog, cbLog, forwarded, events, calls, trainer>>

Run ==
  \/ learn_get_env
  \/ FixedCycle_get_agent
  \/ FixedCycle_learn_reset
  \/ FixedCycle_learn_while
  \/ FixedCycle_learn_step
  \/ FixedCycle_learn_update
  \/ QLearning_get_agent
  \/ QLearning_learn_begin
  \/ QLearning_learn_while
  \/ QLearning_learn_act
  \/ QLearning_learn_step
  \/ QLearning_learn_update
  \/ QLearning_learn_learn
  \/ DeepQLearning_get_agent
  \/ DeepQLearning_learn
  \/ DQN_timestep
  \/ DeepQLearning_callback
  \/ update_metrics_append
  \/ update_metrics_callback
  \/ learn_save_model
  \/ learn_save_csv
  \/ learn_save_plots
  \/ learn_close

Next == Run \/ Raise

Spec == Init /\ [][Next]_vars

LiveSpec == Init /\ [][Run]_vars /\ WF_vars(Run)

----------------------------------------------------------------------------
(* Properties *)

IsPrefix(a, b) == Len(a) <= Len(b) /\ SubSeq(b, 1, Len(a)) = a
RECURSIVE Flatten(_)
Flatten(ds) ==
  IF Len(ds) = 0 THEN << >>
  ELSE Flatten(SubSeq(ds, 1, Len(ds) - 1))
         \o [i \in 1..Len(Last(ds)) |-> <<Last(ds)[i][2], Last(ds)[i][1]>>]

(* where learn is, or was when a collaborator raised *)
at == IF pc = "raised" THEN raisedAt ELSE pc
PostLearn == {"save_model", "save_csv", "save_plots", "close", "closed"}
InUpdate == {"um_append", "um_callback"}
Saves == {"save_model", "save_csv", "save_plots"}
LoopVariant == variant \in {"FixedCycle", "QLearning"}
Has(e) == \E i \in 1..Len(events) : events[i] = e

ExpectedEvents ==
  <<"get_env", "get_agent", "learn", "save_model", "save_csv", "save_plots", "close">>

LoopReturned ==
  IF variant = "DeepQLearning"
    THEN trainer.total_timesteps >= 0 /\ trainer.num_timesteps >= trainer.total_timesteps
    ELSE done[AllKey]

C1_Order ==
  /\ IsPrefix(events, ExpectedEvents)
  /\ pc = "closed" => events = ExpectedEvents /\ sim.closed
  /\ (\E e \in Saves : Has(e)) => at \in PostLearn /\ LoopReturned
  /\ sim.closed => pc = "closed"

C1_NothingAfterClose ==
  sim.closed => UNCHANGED <<events, calls, forwarded, plotLog, cbLog, sim>>

(* C1: one call of learn in which nothing raises performs get_env, _get_agent,
   _learn, _save_model, _save_csv, _save_plots, env.close once each in that
   order; no save precedes the return of the learning loop; after env.close
   there is no environment step, no metric forwarding and no save. *)
C1_LearnSequence == [] C1_Order /\ [][C1_NothingAfterClose]_vars

C1_Witness ==
  pc = "closed" /\ variant = "DeepQLearning" /\ Len(forwarded) = 2

(* C2: every key of every dictionary handed to _update_metrics gets one
   plotter.append followed by one callback call carrying this agent's name, so
   once the dictionaries have been forwarded the plotter's (value, metric)
   sequence is the flattened dictionaries and equals the callback's. *)
C2_MetricsForwarded ==
  LET cbPairs == [i \in 1..Len(cbLog) |-> <<cbLog[i][1], cbLog[i][2]>>] IN
  /\ IsPrefix(cbPairs, plotLog)
  /\ IsPrefix(plotLog, Flatten(forwarded))
  /\ Len(plotLog) = Len(cbLog) + (IF at = "um_callback" THEN 1 ELSE 0)
  /\ at \notin InUpdate => plotLog = Flatten(forwarded) /\ cbPairs = plotLog
  /\ \A i \in 1..Len(cbLog) : cbLog[i][3] = self.name

C2_Witness ==
  pc = "closed" /\ Len(forwarded) = 2 /\ Len(plotLog) = 3 /\ Len(cbLog) = 3

(* C3: the fixed-cycle loop resets the environment once, before the first
   step; every step gets the empty action dictionary; no step follows a step
   that reported done['__all__']. *)
C3_FixedCycleEpisode ==
  variant = "FixedCycle" =>
    /\ calls.resets = (IF at \in {"start", "get_agent", "learn"} THEN 0 ELSE 1)
    /\ ~ calls.stepBeforeReset
    /\ ~ calls.stepAfterDone
    /\ calls.steps > 0 => calls.lastAction = << >>
    /\ at \in PostLearn => sim.lastDone /\ calls.steps > 0

C3_Witness ==
  variant = "FixedCycle" /\ pc = "closed" /\ calls.steps = 2

(* C4: fixed_ts holds exactly for the fixed-cycle agent and single_agent
   exactly for the deep Q-learning agent; net_file, route_file, delta_time,
   yellow_time, min_green, max_green reach the environment as given to the
   constructor; fixed-cycle has no agent object, Q-learning has one QLAgent
   per traffic-signal id. *)
C4_EnvMode ==
  pc # "start" =>
    /\ env.fixed_ts = (variant = "FixedCycle")
    /\ env.single_agent = (variant = "DeepQLearning")
    /\ env.net_file = args.net_file /\ env.route_file = args.route_file
    /\ env.delta_time = args.delta_time /\ env.yellow_time = args.yellow_time
    /\ env.min_green = args.min_green /\ env.max_green = args.max_green
    /\ at # "get_agent" =>
         /\ variant = "FixedCycle" => agent.kind = "None"
         /\ variant = "QLearning" => agent.kind = "QLAgents" /\ DOMAIN agent.ql = TsIds
         /\ variant = "DeepQLearning" => agent.kind = "DQN"

C4_Witness ==
  variant = "QLearning" /\ pc = "learn" /\ args.yellow_time = 3

(* C5: in the fixed-cycle and Q-learning loops each env.step is followed by
   one update_metrics with the metrics entry that step appended; none is
   forwarded before the first step; at loop exit as many dictionaries were
   forwarded as steps were taken. *)
C5_MetricsPerStep ==
  LoopVariant =>
    /\ Len(sim.metrics) = calls.steps
    /\ IsPrefix(forwarded, sim.metrics)
    /\ calls.steps = Len(forwarded) + (IF at \in {"fc_update", "ql_update"} THEN 1 ELSE 0)
    /\ at \in PostLearn => Len(forwarded) = calls.steps /\ forwarded = sim.metrics

C5_Witness ==
  variant = "QLearning" /\ pc = "save_model" /\ calls.steps = 2
    /\ forwarded[1] # forwarded[2]

(* C6: tabular Q-learning resets once in _get_agent before any step; in each
   iteration every agent acts once, then one env.step gets the joint action,
   then every agent learns once from that step's own state and reward; at
   loop exit acts = learns = steps for every agent. *)
C6_ActStepLearn ==
  variant = "QLearning" /\ at \notin {"start", "get_agent"} =>
    /\ calls.resets = 1 /\ ~ calls.stepBeforeReset
    /\ calls.steps > 0 /\ at # "ql_step" =>
         calls.lastAction = actions /\ DOMAIN calls.lastAction = TsIds
    /\ \A i \in 1..Len(TsOrder) :
         LET a == agent.ql[TsOrder[i]]
             learned == ~ (\/ at = "ql_update"
                           \/ at \in InUpdate
                           \/ at = "ql_learn" /\ i >= cursor)
         IN /\ a.acts = calls.steps + (IF at = "ql_step" THEN 1 ELSE 0)
            /\ a.learns = calls.steps - (IF learned THEN 0 ELSE 1)
            /\ learned /\ calls.steps > 0 =>
                 a.last = [next_state |-> encode(state[TsOrder[i]], TsOrder[i]),
                           reward |-> reward[TsOrder[i]]]
            /\ at \in PostLearn => a.acts = calls.steps /\ a.learns = calls.steps

C6_Witness ==
  variant = "QLearning" /\ pc = "save_model" /\ calls.steps = 2
    /\ agent.ql["ts2"].learns = 2 /\ agent.ql["ts1"].last.reward = 1

C7_ExitOnlyWhenDone ==
  LoopVariant /\ at \in PostLearn => done[AllKey] /\ sim.lastDone

(* C7: in the fixed-cycle and Q-learning variants, once the environment has
   reported done['__all__'] the loop ends and learn reaches env.close; the
   loop never ends while the last step reported done['__all__'] = False,
   whatever the other keys of done say. *)
C7_Termination ==
  /\ [] C7_ExitOnlyWhenDone
  /\ (LoopVariant /\ sim.lastDone) ~> (pc = "closed" /\ sim.closed)

C7_Witness ==
  /\ variant = "QLearning" /\ pc = "ql_act" /\ calls.steps = 1
  /\ done["ts1"] /\ ~ done[AllKey]

(* C8: deep Q-learning asks the trainer for floor(num_seconds / delta_time)
   timesteps, the value the environment gets as num_seconds; each callback
   invocation forwards infos[0] once; the repository code itself neither
   resets nor steps the environment. *)
C8_DqnHorizon ==
  variant = "DeepQLearning" =>
    /\ self.num_seconds * args.delta_time <= args.num_seconds
    /\ args.num_seconds < (self.num_seconds + 1) * args.delta_time
    /\ pc # "start" => env.num_seconds = self.num_seconds
    /\ at \notin {"start", "get_agent", "learn"} =>
         /\ trainer.total_timesteps * args.delta_time <= args.num_seconds
         /\ args.num_seconds < (trainer.total_timesteps + 1) * args.delta_time
         /\ trainer.total_timesteps = env.num_seconds
    /\ calls.resets = 0 /\ calls.steps = 0
    /\ Len(forwarded) = trainer.num_timesteps - (IF at = "dqn_callback" THEN 1 ELSE 0)
    /\ IsPrefix(forwarded, sim.metrics)
    /\ at \in PostLearn => Len(forwarded) = trainer.total_timesteps

C8_Witness ==
  /\ variant = "DeepQLearning" /\ pc = "closed"
  /\ args.num_seconds = 2 /\ args.delta_time = 1 /\ Len(forwarded) = 2

RunPoints == RaisePoints \ {"save_csv", "save_plots", "close"}

C9_Unpersisted ==
  pc = "raised" /\ raisedAt \in RunPoints =>
    /\ ~ sim.closed
    /\ \A e \in Saves \cup {"close"} : ~ Has(e)

C9_Propagates ==
  /\ pc' = "raised" => UNCHANGED <<plotLog, cbLog, forwarded>>
  /\ pc = "raised" => UNCHANGED vars

(* C9: when _get_agent or _learn raises, learn ends there: no _save_model,
   _save_csv, _save_plots or env.close is executed, and what the plotter and
   the callback already received stays as it is. *)
C9_FailureLeavesOpen == [] C9_Unpersisted /\ [][C9_Propagates]_vars

C9_Witness ==
  pc = "raised" /\ raisedAt = "um_callback" /\ Len(plotLog) = 2 /\ Len(cbLog) = 1

(* C10: the fixed-cycle and Q-learning loops take at least one environment
   step; when the environment is already over right after reset, exactly one
   step is taken and one dictionary forwarded before the loop exits. *)
C10_AtLeastOneStep ==
  LoopVariant /\ at \in PostLearn =>
    /\ calls.steps >= 1 /\ Len(forwarded) >= 1
    /\ sim.overAtReset => calls.steps = 1 /\ Len(forwarded) = 1

C10_Witness ==
  variant = "QLearning" /\ pc = "save_model" /\ sim.overAtReset /\ calls.steps = 1
    /\ args.num_seconds - args.delta_time <= 0

====
